---- MODULE Spec2Model ----
(***************************************************************************)
(* Model of katjahager/AML:                                                *)
(*   - src/refine_lm/model_BERT.py : CustomBERTModel (top-k re-weighting)  *)
(*   - src/inference.py            : parse_args / main (inference driver)  *)
(*                                                                         *)
(* Tensors are functions over 0-based index ranges, as in the source.      *)
(* Optional Python values are sequences of length 0 (None) or 1 (a value). *)
(***************************************************************************)
EXTENDS Integers, Sequences, FiniteSets, TLC

\* ------------------------------------------------------------------------
\* Bounds of the model
\* ------------------------------------------------------------------------
\* number of sentences in a batch (len(output))
NumSent == 2
\* number of token positions of a sentence
SeqLen == 2
\* size of the vocabulary (last dimension of the wrapped model's output)
VocabSize == 3
\* the k of the top-k (constructor argument k)
TopK == 2
\* the wrapped model's parameters are drawn from 0 .. MaxSeed
MaxSeed == 1

\* ------------------------------------------------------------------------
\* State of CustomBERTModel and of one call of forward
\* ------------------------------------------------------------------------
VARIABLES
    bert,             \* parameters of the wrapped model (self.bert)
    tie,              \* the build's order of equal logits in topk
    weight,           \* self.out.weight, a TopK x TopK matrix
    bias,             \* self.out.bias
    input_ids,        \* argument of forward
    output,           \* local: self.bert(input_ids)
    inputs,           \* local: the tensor forward returns
    i,                \* loop variable: the sentence being processed
    indices,          \* local of the last iteration: indices[m][c]
    output_values,    \* local of the last iteration: self.out(values)
    fpc               \* position in forward

fvars == <<bert, tie, weight, bias, input_ids,
           output, inputs, i, indices, output_values, fpc>>

\* ------------------------------------------------------------------------
\* State of one run of inference.py
\* ------------------------------------------------------------------------
VARIABLES
    entry,             \* "cli": python inference.py ARGV; "call": main(args) from a caller
    argv,              \* the command line: options given (None when absent)
    args,              \* the namespace main receives
    logger,            \* the module global: None while unbound, else its handler
    dirs,              \* the directories os.makedirs was called on
    dpc,               \* position in main
    intrasentence_data_path, intersentence_data_path, output_dir,
    eraser_path_list,  \* locals of main, lines 139-154
    lang,              \* local of main, None while unbound
    combined_results,  \* local of main: the keys of the dict
    tokenizer,         \* the name the tokenizer was loaded from
    models,            \* the models instantiated, in order
    runners,           \* the runners constructed, in order
    files,             \* the files written to (log file included), by first write
    dumped,            \* the keys of the dict dumped to the combined file
    trace              \* the calls main made, in order

dvars == <<entry, argv, args, logger, dirs, dpc, intrasentence_data_path, intersentence_data_path,
           output_dir, eraser_path_list, lang, combined_results, tokenizer, models,
           runners, files, dumped, trace>>

vars == <<fvars, dvars>>

None == <<>>
Some(x) == <<x>>

SentIdx == 0 .. (NumSent - 1)
PosIdx == 0 .. (SeqLen - 1)
VocIdx == 0 .. (VocabSize - 1)
RankIdx == 0 .. (TopK - 1)

\* self.tokenizer.mask_token_id: a vocabulary index
mask_token_id == VocabSize - 1
\* the token ids a batch is drawn from: the mask token and an ordinary token
InputTokens == {0, mask_token_id}
\* initial values of the bias of nn.Linear (random around zero in torch):
\* all equal, ascending with the rank, descending with the rank
BiasChoices ==
    {[c \in RankIdx |-> 0], [c \in RankIdx |-> c], [c \in RankIdx |-> 0 - c]}
\* how the build's topk orders equal logits: lowest or highest index first
TieRules == {"low", "high"}

\* the identity on functions: a tensor is evaluated once, not at every use
Eval(f) == IF f = <<>> THEN <<>> ELSE f

Range(f) == {f[x] : x \in DOMAIN f}

RECURSIVE SumUpTo(_, _)
\* sum of f[0] + ... + f[n]
SumUpTo(f, n) == IF n < 0 THEN 0 ELSE f[n] + SumUpTo(f, n - 1)

Max(S) == CHOOSE x \in S : \A y \in S : y <= x

\* ------------------------------------------------------------------------
\* The wrapped masked-language model (self.bert): a deterministic function
\* of its parameters and its arguments.  An argument left out by the caller
\* is None.
\* ------------------------------------------------------------------------
Context(ids, am, tt, s) ==
    Cardinality({p \in PosIdx : ids[s][p] = mask_token_id})
    + (IF am = None THEN 0 ELSE SumUpTo([p \in PosIdx |-> 1 - am[1][s][p]], SeqLen - 1))
    + (IF tt = None THEN 0 ELSE SumUpTo([p \in PosIdx |-> tt[1][s][p]], SeqLen - 1))

Bert(w, ids, am, tt) ==
    Eval([s \in SentIdx |-> Eval([p \in PosIdx |-> Eval([v \in VocIdx |->
        ((w + 1) * (v + 1) * (v + p + 1) + s * v + Context(ids, am, tt, s))
            % (VocabSize + 2)])])])

\* ------------------------------------------------------------------------
\* Exact values of softmax outputs.  exp(a) / (exp(x_1) + ... + exp(x_k))
\* with integer exponents is kept as the exponent of the numerator and the
\* bag of the exponents of the denominator, both shifted so that the largest
\* is 0 (softmax is invariant under the shift).  Two such values are equal as
\* real numbers exactly when the records are equal.
\* ------------------------------------------------------------------------
Zero == [zero |-> TRUE, num |-> 0, den |-> <<>>]

Expo(a, xs) ==
    LET m == Max(Range(xs))
        shifted == Eval([c \in DOMAIN xs |-> xs[c] - m])
    IN [zero |-> FALSE,
        num |-> a - m,
        den |-> Eval([e \in Range(shifted) |-> Cardinality({c \in DOMAIN xs : shifted[c] = e})])]

\* output_values.softmax(dim=-1), one row
Softmax(scores) == Eval([c \in DOMAIN scores |-> Expo(scores[c], scores)])

\* ------------------------------------------------------------------------
\* CustomBERTModel
\* ------------------------------------------------------------------------
\* mutant: the weight matrix left as the identity
InitWeight_Eye == [c \in RankIdx |-> [j \in RankIdx |-> IF c = j THEN 1 ELSE 0]]

\* nn.init.ones_(self.out.weight)
InitWeight == [c \in RankIdx |-> [j \in RankIdx |-> 1]]

\* mutant: the optional arguments are handed on to the wrapped model
BertCall_PassesArgs(ids, am, tt) == Bert(bert, ids, am, tt)

\* line 36: the wrapped model is called with input_ids alone
BertCall(ids, am, tt) == Bert(bert, ids, None, None)

\* torch.zeros_like(output)
ZerosLike(t) ==
    Eval([s \in DOMAIN t |-> Eval([p \in DOMAIN t[s] |-> Eval([v \in DOMAIN t[s][p] |-> Zero])])])

\* (input_ids[i] == mask_token_id) as the index tensor a boolean mask stands
\* for: the masked positions of the sentence in ascending order
MaskedIndex(sent) ==
    LET masked == {p \in DOMAIN sent : sent[p] = mask_token_id}
    IN Eval([m \in 0 .. (Cardinality(masked) - 1) |->
                CHOOSE p \in masked : Cardinality({q \in masked : q < p}) = m])

\* vocabulary index a comes before b in the descending order of row
Before(row, a, b) ==
    \/ row[a] > row[b]
    \/ row[a] = row[b] /\ a # b /\ (IF tie = "low" THEN a < b ELSE a > b)

\* mutant: the k smallest entries, smallest first
TopKIndices_Smallest(row, k) ==
    [c \in 0 .. (k - 1) |->
        CHOOSE a \in DOMAIN row : Cardinality({b \in DOMAIN row : Before(row, a, b)}) = c]

\* row.topk(k): the indices of the k largest entries, largest first
TopKIndices(row, k) ==
    Eval([c \in 0 .. (k - 1) |->
        CHOOSE a \in DOMAIN row : Cardinality({b \in DOMAIN row : Before(row, b, a)}) = c])

\* self.out(values), one row: values W^T + bias
Linear(values) ==
    Eval([c \in RankIdx |->
        SumUpTo(Eval([j \in RankIdx |-> weight[c][j] * values[j]]), TopK - 1) + bias[c]])

\* mutant: the position and vocabulary indices are combined as an outer
\* product, every masked position receiving every row's index
ScatterRank_OuterProduct(slice, j, idx, layer_output, k) ==
    [p \in DOMAIN slice |-> [v \in DOMAIN slice[p] |->
        IF (\E m \in DOMAIN j : j[m] = p) /\ (\E n \in DOMAIN j : idx[n][k] = v)
        THEN LET n == Max({n \in DOMAIN j : idx[n][k] = v})
             IN layer_output[n][k]
        ELSE slice[p][v]]]

\* line 66 for one k: inputs[i, j, indices[:,k]] = layer_output[:,k]; the three
\* index tensors are paired element by element
ScatterRank(slice, j, idx, layer_output, k) ==
    Eval([p \in DOMAIN slice |-> Eval([v \in DOMAIN slice[p] |->
        IF \E m \in DOMAIN j : j[m] = p /\ idx[m][k] = v
        THEN LET m == Max({n \in DOMAIN j : j[n] = p /\ idx[n][k] = v})
             IN layer_output[m][k]
        ELSE slice[p][v]])])

RECURSIVE ScatterUpTo(_, _, _, _, _)
\* lines 64-66: for k in range(indices.shape[-1]), ranks 0 .. k in order
ScatterUpTo(slice, j, idx, layer_output, k) ==
    IF k < 0 THEN slice
    ELSE ScatterRank(ScatterUpTo(slice, j, idx, layer_output, k - 1), j, idx, layer_output, k)

\* mutant: every iteration writes to the first sentence
TargetSentence_First(s) == 0

\* the sentence index the loop body writes to (inputs[i, ...])
TargetSentence(s) == s

\* lines 46-66: the loop body for sentence s
LoopIndices(out, ids, s) ==
    LET j == MaskedIndex(ids[s])
    IN Eval([m \in DOMAIN j |-> TopKIndices(out[s][j[m]], TopK)])

LoopOutputValues(out, ids, s) ==
    LET j == MaskedIndex(ids[s])
        idx == LoopIndices(out, ids, s)
    IN Eval([m \in DOMAIN j |-> Linear(Eval([c \in RankIdx |-> out[s][j[m]][idx[m][c]]]))])

LoopBody(inp, out, ids, s) ==
    LET j == MaskedIndex(ids[s])
        idx == LoopIndices(out, ids, s)
        ov == LoopOutputValues(out, ids, s)
        layer_output == Eval([m \in DOMAIN j |-> Softmax(ov[m])])
        t == TargetSentence(s)
    IN [inp EXCEPT ![t] = ScatterUpTo(inp[t], j, idx, layer_output, TopK - 1)]

RECURSIVE LoopUpTo(_, _, _, _)
LoopUpTo(inp, out, ids, s) ==
    IF s < 0 THEN inp ELSE LoopBody(LoopUpTo(inp, out, ids, s - 1), out, ids, s)

\* the tensor forward(input_ids, attention_mask, token_type_ids) returns
ForwardResult(ids, am, tt) ==
    LET out == BertCall(ids, am, tt)
    IN LoopUpTo(ZerosLike(out), out, ids, NumSent - 1)

Batches == [SentIdx -> [PosIdx -> InputTokens]]
\* an attention mask that leaves out the last position, token types all 1
PaddingMask == [s \in SentIdx |-> [p \in PosIdx |-> IF p = SeqLen - 1 THEN 0 ELSE 1]]
SegmentOnes == [s \in SentIdx |-> [p \in PosIdx |-> 1]]
AttentionArgs == {None, Some(PaddingMask)}
TokenTypeArgs == {None, Some(SegmentOnes)}

\* state after CustomBERTModel.__init__ and at the entry of forward
FInit ==
    /\ bert \in 0 .. MaxSeed
    /\ tie \in TieRules
    /\ weight = InitWeight
    /\ bias \in BiasChoices
    /\ input_ids \in Batches
    /\ output = <<>>
    /\ inputs = <<>>
    /\ i = 0
    /\ indices = <<>>
    /\ output_values = <<>>
    /\ fpc = "entry"

\* lines 33-40: forward is entered with any attention_mask and token_type_ids
CallBert ==
    /\ fpc = "entry"
    /\ \E am \in AttentionArgs, tt \in TokenTypeArgs :
           output' = BertCall(input_ids, am, tt)
    /\ inputs' = ZerosLike(output')
    /\ i' = 0
    /\ fpc' = "loop"
    /\ UNCHANGED <<bert, tie, weight, bias, input_ids, indices, output_values>>
    /\ UNCHANGED dvars

\* lines 45-66, one iteration; topk raises when k exceeds the last dimension
LoopSentence ==
    /\ fpc = "loop"
    /\ i < NumSent
    /\ IF TopK > VocabSize
       THEN /\ fpc' = "error"
            /\ UNCHANGED <<inputs, i, indices, output_values>>
       ELSE /\ indices' = LoopIndices(output, input_ids, i)
            /\ output_values' = LoopOutputValues(output, input_ids, i)
            /\ inputs' = LoopBody(inputs, output, input_ids, i)
            /\ i' = i + 1
            /\ fpc' = "loop"
    /\ UNCHANGED <<bert, tie, weight, bias, input_ids, output>>
    /\ UNCHANGED dvars

\* line 68
Return ==
    /\ fpc = "loop"
    /\ i = NumSent
    /\ fpc' = "done"
    /\ UNCHANGED <<bert, tie, weight, bias, input_ids,
                   output, inputs, i, indices, output_values>>
    /\ UNCHANGED dvars

\* ------------------------------------------------------------------------
\* inference.py: parse_args and main
\*
\* Paths and file names are sequences of tokens; "/", "_" and "." are tokens
\* of their own where the code splits on them.  Model names, the checkpoint
\* path and the experiment id are strings.
\* ------------------------------------------------------------------------
\* Python's truth value of an optional string / an optional list
TruthyStr(o) == o # None /\ o[1] # ""
TruthyList(o) == o # None /\ o[1] # <<>>

\* the part of seq after the last sep: seq.split(sep)[-1]
LastPart(seq, sep) ==
    LET at == {n \in 1 .. Len(seq) : seq[n] = sep}
    IN IF at = {} THEN seq ELSE SubSeq(seq, Max(at) + 1, Len(seq))

\* the part of seq before the first sep: seq.split(sep)[0]
FirstPart(seq, sep) ==
    LET at == {n \in 1 .. Len(seq) : seq[n] = sep}
    IN IF at = {} THEN seq ELSE SubSeq(seq, 1, (CHOOSE n \in at : \A k \in at : n <= k) - 1)

\* path.split("/")[-1].split("_")[-1].split(".")[0]
LangOf(path) == FirstPart(LastPart(LastPart(path, "/"), "_"), ".")

\* os.path.join(dir, rest): an absolute rest replaces dir; no separator is
\* added after an empty dir or after a dir that ends with one
Join(dir, rest) ==
    IF rest # <<>> /\ rest[1] = "/" THEN rest
    ELSE IF dir = <<>> \/ dir[Len(dir)] = "/" THEN dir \o rest
    ELSE dir \o <<"/">> \o rest

\* the default of --top-level-dir: the directory above the script's
DefaultTopLevelDir == <<"top">>
\* --top-level-dir as it may be given: a name, a name with a trailing
\* separator, the empty string
TopLevelDirs == {DefaultTopLevelDir, <<"dir", "/">>, <<>>}

DefaultIntraPath ==
    Join(args.top_level_dir, <<"data", "/", "df", "_", "intrasentence", "_", "en", ".", "pkl">>)
DefaultInterPath ==
    Join(args.top_level_dir, <<"data", "/", "df", "_", "intersentence", "_", "en", ".", "pkl">>)
DefaultOutputDir == Join(args.top_level_dir, <<"inference_output">>)
DefaultEraserPath ==
    Join(args.top_level_dir,
         <<"data", "/", "concept_eraser", "/", "eraser_models", "/", "eraser", ".", "pkl">>)
DefaultLoggingDir == Join(args.top_level_dir, <<"logs">>)
\* const=['default_path']
Sentinel == << <<"default_path">> >>

IntraModels == {"BertForMLM", "SwissBertForMLM"}
InterModels == {"BertForNSP", "SwissBertForNSP"}
PretrainedNames == {"bert-base-uncased", "ZurichNLP/swissbert-xlm-vocab"}
CkptPaths == {None, Some(""), Some("ckpt")}
ExperimentIds == {None, Some(""), Some("exp1")}
IntraDataPaths == {None, Some(<<"corpus", "/", "intra", "_", "de", ".", "pkl">>)}
InterDataPaths == {None, Some(<<"corpus", "/", "inter", "_", "fr", ".", "pkl">>)}
OutputDirs == {None, Some(<<"out">>)}
LoggingDirs == {None, Some(<<"out">>)}
EraserLists == {None, Some(<<>>), Some(Sentinel), Some(<< <<"e1", ".", "pkl">> >>)}

\* what main may be handed
Namespaces ==
    [top_level_dir : TopLevelDirs,
     logging_dir : {None},
     intrasentence_model : IntraModels,
     intersentence_model : InterModels,
     pretrained_model_name : PretrainedNames,
     eraser_path_list : EraserLists,
     ckpt_path : CkptPaths,
     intrasentence_data_path : IntraDataPaths,
     intersentence_data_path : InterDataPaths,
     output_dir : OutputDirs,
     skip_intrasentence : BOOLEAN,
     skip_intersentence : BOOLEAN,
     experiment_id : ExperimentIds]

\* command lines: an option is absent (None) or given; a flag is passed or not.
\* --eraser-path-list may be given without values (Some(<<>>)).
CommandLines ==
    [top_level_dir : {None, Some(<<"dir", "/">>), Some(<<>>)},
     logging_dir : LoggingDirs,
     intrasentence_model : {None, Some("SwissBertForMLM")},
     intersentence_model : {None, Some("SwissBertForNSP")},
     pretrained_model_name : {None, Some("ZurichNLP/swissbert-xlm-vocab")},
     eraser_path_list : {None, Some(<<>>), Some(<< <<"e1", ".", "pkl">> >>)},
     ckpt_path : CkptPaths,
     intrasentence_data_path : IntraDataPaths,
     intersentence_data_path : InterDataPaths,
     output_dir : OutputDirs,
     skip_intrasentence : BOOLEAN,
     skip_intersentence : BOOLEAN,
     experiment_id : ExperimentIds]

OrDefault(o, d) == IF o = None THEN d ELSE o[1]

\* action="store_true" of --skip-intrasentence: default False
SkipIntrasentenceValue(passed) == passed
\* action="store_true", default=True of --skip-intersentence
SkipIntersentenceValue(passed) == IF passed THEN TRUE ELSE TRUE

\* parse_args: the namespaces a command line may parse to.  utils.customAction
\* is not part of the sources: for the option given without values it stores
\* either the const or the empty list.
ParseArgs(cl) ==
    {[top_level_dir |-> OrDefault(cl.top_level_dir, DefaultTopLevelDir),
      logging_dir |-> cl.logging_dir,
      intrasentence_model |-> OrDefault(cl.intrasentence_model, "BertForMLM"),
      intersentence_model |-> OrDefault(cl.intersentence_model, "BertForNSP"),
      pretrained_model_name |-> OrDefault(cl.pretrained_model_name, "bert-base-uncased"),
      eraser_path_list |-> e,
      ckpt_path |-> cl.ckpt_path,
      intrasentence_data_path |-> cl.intrasentence_data_path,
      intersentence_data_path |-> cl.intersentence_data_path,
      output_dir |-> cl.output_dir,
      skip_intrasentence |-> SkipIntrasentenceValue(cl.skip_intrasentence),
      skip_intersentence |-> SkipIntersentenceValue(cl.skip_intersentence),
      experiment_id |-> cl.experiment_id] :
        e \in IF cl.eraser_path_list = Some(<<>>)
              THEN {Some(Sentinel), Some(<<>>)}
              ELSE {cl.eraser_path_list}}

\* mutant: the sentinel is handed on as it was parsed
LocalEraserPathList_KeepsSentinel == args.eraser_path_list

\* lines 151-154
LocalEraserPathList ==
    IF args.eraser_path_list = Some(Sentinel)
    THEN Some(<<DefaultEraserPath>>)
    ELSE args.eraser_path_list

\* args.ckpt_path or args.pretrained_model_name
ModelSource == IF TruthyStr(args.ckpt_path) THEN args.ckpt_path[1] ELSE args.pretrained_model_name

\* mutant: the results are not stored in the dict
StoreKey_Dropped(results, key) == results

\* lines 173 and 189: combined_results[key] = results
StoreKey(results, key) == results \cup {key}

\* mutant: the marker is written whenever a checkpoint path is not None
DebiasedSegment_NotNone == IF args.ckpt_path # None THEN <<"_debiased">> ELSE <<>>

\* the segments of the f-strings of lines 175, 191 and 194
DebiasedSegment == IF TruthyStr(args.ckpt_path) THEN <<"_debiased">> ELSE <<>>
ExperimentSegment ==
    IF TruthyStr(args.experiment_id) THEN <<"_", args.experiment_id[1]>> ELSE <<>>
EraserSegment == IF TruthyList(args.eraser_path_list) THEN <<"_eraser">> ELSE <<>>

TaskFileName(task, arch, lg) ==
    <<task, "_", arch>> \o DebiasedSegment \o <<"_">> \o lg
        \o ExperimentSegment \o EraserSegment \o <<".json">>

CombinedFileName(lg) ==
    <<"combined_results">>
        \o (IF ~args.skip_intrasentence THEN <<"_", args.intrasentence_model>> ELSE <<>>)
        \o (IF ~args.skip_intersentence THEN <<"_", args.intersentence_model>> ELSE <<>>)
        \o DebiasedSegment \o <<"_">> \o lg
        \o ExperimentSegment \o EraserSegment \o <<".json">>

\* a logger without a file handler, as a caller of main may have bound it
StreamLogger == [file |-> None]
\* logging.basicConfig(filename=...) followed by logging.getLogger(__name__)
FileLogger(dir) == [file |-> Some([task |-> "log", dir |-> dir, name |-> <<"inference_runs", ".log">>])]

\* python inference.py ARGV has parsed its arguments (line 203) and is about
\* to set up logging; a caller of main(args) hands over a namespace and has
\* bound the module's logger or not
DInit ==
    /\ entry \in {"cli", "call"}
    /\ IF entry = "cli"
       THEN /\ argv \in {Some(cl) : cl \in CommandLines}
            /\ args \in ParseArgs(argv[1])
            /\ logger = None
            /\ dpc = "logging"
       ELSE /\ argv = None
            /\ args \in Namespaces
            /\ logger \in {None, Some(StreamLogger)}
            /\ dpc = "start"
    /\ dirs = <<>>
    /\ intrasentence_data_path = None
    /\ intersentence_data_path = None
    /\ output_dir = None
    /\ eraser_path_list = None
    /\ lang = None
    /\ combined_results = {}
    /\ tokenizer = None
    /\ models = <<>>
    /\ runners = <<>>
    /\ files = <<>>
    /\ dumped = None
    /\ trace = <<>>

\* lines 205-213 of the __main__ block: the logging directory is made, the
\* log file is opened and the module's logger is bound
ConfigureLogging ==
    /\ dpc = "logging"
    /\ LET logging_dir == OrDefault(args.logging_dir, DefaultLoggingDir)
       IN /\ dirs' = Append(dirs, logging_dir)
          /\ logger' = Some(FileLogger(logging_dir))
    /\ trace' = trace \o <<"makedirs_logs", "log_open">>
    /\ dpc' = "start"
    /\ UNCHANGED <<entry, argv, args, intrasentence_data_path, intersentence_data_path,
                   output_dir, eraser_path_list, lang, combined_results, tokenizer, models,
                   runners, files, dumped>>
    /\ UNCHANGED fvars

\* lines 135-137: the first statement of main reads the global logger, which
\* raises NameError while it is unbound; a logger with a file handler writes
\* its records to the log file
LogStarted ==
    /\ dpc = "start"
    /\ IF logger = None
       THEN /\ trace' = Append(trace, "NameError")
            /\ dpc' = "raised"
            /\ UNCHANGED files
       ELSE /\ trace' = Append(trace, "STARTED")
            /\ files' = IF logger[1].file = None THEN files
                        ELSE Append(files, logger[1].file[1])
            /\ dpc' = "setup"
    /\ UNCHANGED <<entry, argv, args, logger, dirs, intrasentence_data_path,
                   intersentence_data_path, output_dir, eraser_path_list, lang,
                   combined_results, tokenizer, models, runners, dumped>>
    /\ UNCHANGED fvars

\* lines 139-159
Setup ==
    /\ dpc = "setup"
    /\ intrasentence_data_path' = Some(OrDefault(args.intrasentence_data_path, DefaultIntraPath))
    /\ intersentence_data_path' = Some(OrDefault(args.intersentence_data_path, DefaultInterPath))
    /\ output_dir' = Some(OrDefault(args.output_dir, DefaultOutputDir))
    /\ eraser_path_list' = LocalEraserPathList
    /\ dirs' = Append(dirs, OrDefault(args.output_dir, DefaultOutputDir))
    /\ combined_results' = {}
    /\ trace' = Append(trace, "makedirs")
    /\ dpc' = "tokenizer"
    /\ UNCHANGED <<entry, argv, args, logger, lang, tokenizer, models, runners, files, dumped>>
    /\ UNCHANGED fvars

\* line 161
LoadTokenizer ==
    /\ dpc = "tokenizer"
    /\ tokenizer' = Some(args.pretrained_model_name)
    /\ trace' = Append(trace, "tokenizer")
    /\ dpc' = "intrasentence"
    /\ UNCHANGED <<entry, argv, args, logger, dirs, intrasentence_data_path, intersentence_data_path,
                   output_dir, eraser_path_list, lang, combined_results, models, runners,
                   files, dumped>>
    /\ UNCHANGED fvars

\* lines 162-176, the branch taken
RunIntrasentence ==
    /\ dpc = "intrasentence"
    /\ ~args.skip_intrasentence
    /\ LET lg == LangOf(intrasentence_data_path[1])
       IN /\ lang' = Some(lg)
          /\ models' = Append(models, [task |-> "intrasentence",
                                       arch |-> args.intrasentence_model,
                                       source |-> ModelSource,
                                       lang |-> lg,
                                       erasers |-> eraser_path_list])
          /\ runners' = Append(runners, [task |-> "intrasentence",
                                         data |-> intrasentence_data_path[1],
                                         model_name |-> args.pretrained_model_name])
          /\ combined_results' = StoreKey(combined_results, "intrasentence")
          /\ files' = Append(files, [task |-> "intrasentence",
                                     dir |-> output_dir[1],
                                     name |-> TaskFileName("intrasentence", args.intrasentence_model, lg)])
    /\ trace' = trace \o <<"intrasentence_model", "intrasentence_run", "intrasentence_key",
                           "intrasentence_dump">>
    /\ dpc' = "intersentence"
    /\ UNCHANGED <<entry, argv, args, logger, dirs, intrasentence_data_path, intersentence_data_path,
                   output_dir, eraser_path_list, tokenizer, dumped>>
    /\ UNCHANGED fvars

\* line 162, the branch not taken
SkipIntrasentence ==
    /\ dpc = "intrasentence"
    /\ args.skip_intrasentence
    /\ dpc' = "intersentence"
    /\ UNCHANGED <<entry, argv, args, logger, dirs, intrasentence_data_path, intersentence_data_path,
                   output_dir, eraser_path_list, lang, combined_results, tokenizer, models,
                   runners, files, dumped, trace>>
    /\ UNCHANGED fvars

\* lines 178-192, the branch taken
RunIntersentence ==
    /\ dpc = "intersentence"
    /\ ~args.skip_intersentence
    /\ LET lg == LangOf(intersentence_data_path[1])
       IN /\ lang' = Some(lg)
          /\ models' = Append(models, [task |-> "intersentence",
                                       arch |-> args.intersentence_model,
                                       source |-> ModelSource,
                                       lang |-> lg,
                                       erasers |-> eraser_path_list])
          /\ runners' = Append(runners, [task |-> "intersentence",
                                         data |-> intersentence_data_path[1],
                                         model_name |-> args.pretrained_model_name])
          /\ combined_results' = StoreKey(combined_results, "intersentence")
          /\ files' = Append(files, [task |-> "intersentence",
                                     dir |-> output_dir[1],
                                     name |-> TaskFileName("intersentence", args.intersentence_model, lg)])
    /\ trace' = trace \o <<"intersentence_model", "intersentence_run", "intersentence_key",
                           "intersentence_dump">>
    /\ dpc' = "combined"
    /\ UNCHANGED <<entry, argv, args, logger, dirs, intrasentence_data_path, intersentence_data_path,
                   output_dir, eraser_path_list, tokenizer, dumped>>
    /\ UNCHANGED fvars

\* line 178, the branch not taken
SkipIntersentence ==
    /\ dpc = "intersentence"
    /\ args.skip_intersentence
    /\ dpc' = "combined"
    /\ UNCHANGED <<entry, argv, args, logger, dirs, intrasentence_data_path, intersentence_data_path,
                   output_dir, eraser_path_list, lang, combined_results, tokenizer, models,
                   runners, files, dumped, trace>>
    /\ UNCHANGED fvars

\* lines 194-195: the file name reads lang, which is bound only by a task
\* that ran; reading it unbound raises UnboundLocalError before open()
DumpCombined ==
    /\ dpc = "combined"
    /\ IF lang = None
       THEN /\ trace' = Append(trace, "UnboundLocalError")
            /\ dpc' = "raised"
            /\ UNCHANGED <<files, dumped>>
       ELSE /\ files' = Append(files, [task |-> "combined",
                                       dir |-> output_dir[1],
                                       name |-> CombinedFileName(lang[1])])
            /\ dumped' = Some(combined_results)
            /\ trace' = Append(trace, "combined_dump")
            /\ dpc' = "finish"
    /\ UNCHANGED <<entry, argv, args, logger, dirs, intrasentence_data_path, intersentence_data_path,
                   output_dir, eraser_path_list, lang, combined_results, tokenizer, models,
                   runners>>
    /\ UNCHANGED fvars

\* line 198
Finish ==
    /\ dpc = "finish"
    /\ trace' = Append(trace, "FINISHED")
    /\ dpc' = "done"
    /\ UNCHANGED <<entry, argv, args, logger, dirs, intrasentence_data_path, intersentence_data_path,
                   output_dir, eraser_path_list, lang, combined_results, tokenizer, models,
                   runners, files, dumped>>
    /\ UNCHANGED fvars

NextDriver ==
    \/ ConfigureLogging
    \/ LogStarted
    \/ Setup
    \/ LoadTokenizer
    \/ RunIntrasentence
    \/ SkipIntrasentence
    \/ RunIntersentence
    \/ SkipIntersentence
    \/ DumpCombined
    \/ Finish

\* ------------------------------------------------------------------------
\* Specifications: the module's forward pass (Spec) and the driver
\* (SpecDriver); each leaves the other program's state untouched.
\* ------------------------------------------------------------------------
FIdle ==
    /\ bert = 0 /\ tie = "low" /\ weight = InitWeight /\ bias = [c \in RankIdx |-> 0]
    /\ input_ids = <<>> /\ output = <<>> /\ inputs = <<>> /\ i = 0
    /\ indices = <<>> /\ output_values = <<>> /\ fpc = "idle"

DIdle ==
    /\ entry = "none" /\ argv = None /\ args = None /\ dpc = "idle"
    /\ logger = None /\ dirs = <<>>
    /\ intrasentence_data_path = None /\ intersentence_data_path = None
    /\ output_dir = None /\ eraser_path_list = None /\ lang = None
    /\ combined_results = {} /\ tokenizer = None /\ models = <<>> /\ runners = <<>>
    /\ files = <<>> /\ dumped = None /\ trace = <<>>

Init == FInit /\ DIdle
Next == CallBert \/ LoopSentence \/ Return
Spec == Init /\ [][Next]_vars

InitDriver == DInit /\ FIdle
SpecDriver == InitDriver /\ [][NextDriver]_vars

\* ------------------------------------------------------------------------
\* Claims about CustomBERTModel.forward
\* ------------------------------------------------------------------------
IsMasked(s, p) == input_ids[s][p] = mask_token_id
NonZero(s, p) == {v \in VocIdx : inputs[s][p][v] # Zero}
\* v is one of the k largest logits of the row: fewer than k are larger
AmongLargest(row, v) == Cardinality({u \in DOMAIN row : row[u] > row[v]}) < TopK
ZeroSlice == [p \in PosIdx |-> [v \in VocIdx |-> Zero]]

\* C1: the returned tensor has the shape of the wrapped model's output; an
\* entry is non-zero only at a masked position and only at one of the k
\* vocabulary indices with the largest logits there; a masked position has
\* exactly k written entries and a position that is not masked has none.
C1_ZeroOutsideTopKOfMasked ==
    fpc = "done" =>
        /\ DOMAIN inputs = DOMAIN output
        /\ \A s \in SentIdx :
            /\ DOMAIN inputs[s] = DOMAIN output[s]
            /\ \A p \in PosIdx :
                /\ DOMAIN inputs[s][p] = DOMAIN output[s][p]
                /\ \A v \in NonZero(s, p) :
                       IsMasked(s, p) /\ AmongLargest(output[s][p], v)
                /\ Cardinality(NonZero(s, p)) = (IF IsMasked(s, p) THEN TopK ELSE 0)

C1_Witness ==
    /\ fpc = "done"
    /\ \E s \in SentIdx : \E p, q \in PosIdx :
          /\ IsMasked(s, p) /\ ~IsMasked(s, q)
          /\ Cardinality(NonZero(s, p)) = TopK
          /\ \E v \in VocIdx : output[s][q][v] # 0 /\ inputs[s][q][v] = Zero
          /\ \E v \in VocIdx : inputs[s][p][v] = Zero

\* C2: at every masked position p of every sentence, the entry at the index
\* of the c-th largest logit of p is component c of softmax(linear(top-k
\* logits of p)), computed from p itself; the k indices of a position are
\* pairwise distinct.
C2_ScatterKeepsRankAndPosition ==
    fpc = "done" =>
        \A s \in SentIdx : \A p \in PosIdx :
            IsMasked(s, p) =>
                LET idx == TopKIndices(output[s][p], TopK)
                    values == [c \in RankIdx |-> output[s][p][idx[c]]]
                    expected == Softmax(Linear(values))
                IN /\ \A c, d \in RankIdx : c # d => idx[c] # idx[d]
                   /\ \A c \in RankIdx : inputs[s][p][idx[c]] = expected[c]

C2_Witness ==
    /\ fpc = "done"
    /\ \E s \in SentIdx : \E p, q \in PosIdx :
          /\ p # q /\ IsMasked(s, p) /\ IsMasked(s, q)
          /\ TopKIndices(output[s][p], TopK) # TopKIndices(output[s][q], TopK)
          /\ \E v \in VocIdx :
                /\ inputs[s][p][v] # Zero /\ inputs[s][q][v] # Zero
                /\ inputs[s][p][v] # inputs[s][q][v]

\* C8: the tensor forward returns is the same for every attention_mask
\* and token_type_ids it is called with on the same input_ids.
C8_DependsOnInputIdsOnly ==
    fpc = "done" =>
        \A am \in AttentionArgs, tt \in TokenTypeArgs :
            ForwardResult(input_ids, am, tt) = inputs

C8_Witness ==
    /\ fpc = "done"
    /\ \E s \in SentIdx, p \in PosIdx : IsMasked(s, p) /\ NonZero(s, p) # {}
    /\ Bert(bert, input_ids, Some(PaddingMask), Some(SegmentOnes)) # output
    /\ ForwardResult(input_ids, Some(PaddingMask), Some(SegmentOnes)) = inputs
    /\ ForwardResult(input_ids, None, None) = inputs

\* C9: with the weight matrix as constructed (all ones), the score of rank c
\* at a masked position is the sum of the position's k top logits plus
\* bias[c]; so two ranks differ by the difference of their biases, and the
\* distribution scattered over the top-k tokens is softmax(bias) at every
\* masked position, whatever the logits.
C9_ScoresAreSumPlusBias ==
    /\ (fpc = "loop" /\ i > 0) =>
          LET j == MaskedIndex(input_ids[i - 1])
          IN \A m \in DOMAIN j :
                LET row == output[i - 1][j[m]]
                    total == SumUpTo([c \in RankIdx |-> row[indices[m][c]]], TopK - 1)
                IN \A c \in RankIdx :
                      /\ output_values[m][c] = total + bias[c]
                      /\ \A d \in RankIdx :
                            output_values[m][c] - output_values[m][d] = bias[c] - bias[d]
    /\ fpc = "done" =>
          \A s \in SentIdx : \A p \in PosIdx :
              IsMasked(s, p) =>
                  \A c \in RankIdx :
                      inputs[s][p][TopKIndices(output[s][p], TopK)[c]] = Softmax(bias)[c]

C9_Witness ==
    /\ fpc = "done"
    /\ \E c, d \in RankIdx : bias[c] # bias[d]
    /\ \E s, t \in SentIdx : \E p, q \in PosIdx :
          /\ IsMasked(s, p) /\ IsMasked(t, q)
          /\ LET a == TopKIndices(output[s][p], TopK)
                 b == TopKIndices(output[t][q], TopK)
             IN /\ [c \in RankIdx |-> output[s][p][a[c]]] # [c \in RankIdx |-> output[t][q][b[c]]]
                /\ \A c \in RankIdx : inputs[s][p][a[c]] = inputs[t][q][b[c]]

\* one step of the loop over the sentences, as C10 states it
C10_LoopStep ==
    (fpc = "loop" /\ i < NumSent /\ (i' # i \/ fpc' # fpc)) =>
        /\ \A s \in SentIdx : s # i => inputs'[s] = inputs[s]
        /\ fpc' = "loop" /\ i' = i + 1
        /\ IF \E p \in PosIdx : IsMasked(i, p)
           THEN inputs'[i] # ZeroSlice
           ELSE inputs'[i] = ZeroSlice

\* C10: the iteration for sentence i changes only the slice of sentence i;
\* for a sentence without a mask token it raises nothing, leaves the slice
\* all zero and goes on to the next sentence, whose masked positions are
\* then written.
C10_IterationWritesOwnSliceOnly == [][C10_LoopStep]_vars

C10_Witness ==
    /\ fpc = "done"
    /\ \E s, t \in SentIdx :
          /\ s < t
          /\ \A p \in PosIdx : ~IsMasked(s, p)
          /\ inputs[s] = ZeroSlice
          /\ \E p \in PosIdx : IsMasked(t, p)
          /\ inputs[t] # ZeroSlice

\* ------------------------------------------------------------------------
\* Claims about inference.py
\* ------------------------------------------------------------------------
Tasks == {"intrasentence", "intersentence"}
Skipped(task) ==
    IF task = "intrasentence" THEN args.skip_intrasentence ELSE args.skip_intersentence
ArchOf(task) ==
    IF task = "intrasentence" THEN args.intrasentence_model ELSE args.intersentence_model
\* the place of the first ev in the trace, 0 when there is none
Pos(ev) ==
    LET at == {n \in 1 .. Len(trace) : trace[n] = ev}
    IN IF at = {} THEN 0 ELSE CHOOSE n \in at : \A k \in at : n <= k
FilesOf(task) == {n \in 1 .. Len(files) : files[n].task = task}
\* the JSON files of the run, as opposed to its log file
OutputFiles == {n \in 1 .. Len(files) : files[n].task # "log"}
\* both task blocks are behind main
PastTasks ==
    \/ dpc \in {"combined", "finish", "done"}
    \/ dpc = "raised" /\ trace[Len(trace)] = "UnboundLocalError"
ModelsOf(task) == {n \in 1 .. Len(models) : models[n].task = task}
RunnersOf(task) == {n \in 1 .. Len(runners) : runners[n].task = task}
HasSegment(name, seg) == \E n \in 1 .. Len(name) : name[n] = seg
Performed(task) ==
    /\ ModelsOf(task) # {} /\ RunnersOf(task) # {}
    /\ Pos(task \o "_run") > 0
    /\ task \in combined_results
    /\ FilesOf(task) # {}

\* C3: a run from the command line performs intersentence inference (model,
\* runner, key "intersentence", intersentence file) exactly when
\* --skip-intersentence is not passed.
C3_IntersentenceIffFlagNotPassed ==
    (entry = "cli" /\ dpc = "done") =>
        (Performed("intersentence") <=> ~argv[1].skip_intersentence)

\* C4: whatever the two skip settings, main, entered with its logger bound,
\* does not fail before the combined file is dumped, and it ends with the
\* combined file written and FINISHED logged after it.
C4_NoSkipSettingFails ==
    /\ logger # None => dpc # "raised"
    /\ dpc = "done" =>
          /\ FilesOf("combined") # {}
          /\ 0 < Pos("combined_dump") /\ Pos("combined_dump") < Pos("FINISHED")

\* C5: the dict that is dumped holds a task's key exactly when the task was
\* not skipped; a task's file is written exactly when the task ran, after its
\* runner returned and before the combined file; the output directory is
\* made before any file main writes (a task's JSON file or the combined
\* one), each of them into that directory.
C5_KeysFilesAndOrder ==
    /\ dumped # None =>
          \A task \in Tasks : task \in dumped[1] <=> ~Skipped(task)
    /\ \A task \in Tasks :
          /\ FilesOf(task) # {} <=> Pos(task \o "_dump") > 0
          /\ FilesOf(task) # {} =>
                /\ 0 < Pos(task \o "_run")
                /\ Pos(task \o "_run") < Pos(task \o "_dump")
          /\ PastTasks =>
                /\ FilesOf(task) # {} <=> Pos(task \o "_run") > 0
                /\ FilesOf(task) # {} <=> ~Skipped(task)
                /\ Cardinality(FilesOf(task)) <= 1
          /\ (FilesOf(task) # {} /\ FilesOf("combined") # {}) =>
                /\ Pos(task \o "_dump") < Pos("combined_dump")
                /\ \A n \in FilesOf(task), c \in FilesOf("combined") : n < c
    /\ FilesOf("combined") # {} <=> Pos("combined_dump") > 0
    /\ \A n \in OutputFiles :
          /\ output_dir # None /\ files[n].dir = output_dir[1]
          /\ output_dir[1] \in Range(dirs)
    /\ \A ev \in {"intrasentence_dump", "intersentence_dump", "combined_dump"} :
          Pos(ev) > 0 => (0 < Pos("makedirs") /\ Pos("makedirs") < Pos(ev))

C5_Witness ==
    /\ dpc = "done"
    /\ dumped = Some({"intrasentence", "intersentence"})
    /\ Len(files) = 3
    /\ files[1].task = "intrasentence" /\ files[2].task = "intersentence"
    /\ files[3].task = "combined"
    /\ dirs = <<output_dir[1]>>

\* C6: each model is instantiated under the chosen architecture name from
\* the checkpoint path when one is given and is not empty, and from the
\* pretrained model name otherwise; the tokenizer and the runners always get
\* the pretrained model name; every JSON file name written carries the
\* "_debiased" marker exactly when the models were loaded from the checkpoint
\* path.
C6_CheckpointSourceAndMarker ==
    LET from_ckpt == args.ckpt_path # None /\ args.ckpt_path # Some("")
    IN /\ \A n \in 1 .. Len(models) :
             /\ models[n].arch = ArchOf(models[n].task)
             /\ models[n].source =
                   (IF from_ckpt THEN args.ckpt_path[1] ELSE args.pretrained_model_name)
       /\ tokenizer # None => tokenizer[1] = args.pretrained_model_name
       /\ \A n \in 1 .. Len(runners) : runners[n].model_name = args.pretrained_model_name
       /\ \A f \in OutputFiles :
             /\ Len(models) > 0
             /\ HasSegment(files[f].name, "_debiased") <=>
                   (args.ckpt_path # None
                    /\ \A n \in 1 .. Len(models) : models[n].source = args.ckpt_path[1])

C6_Witness ==
    /\ entry = "cli" /\ dpc = "done"
    /\ args.ckpt_path = Some("ckpt")
    /\ Len(models) = 1 /\ models[1].source = "ckpt"
    /\ tokenizer = Some(args.pretrained_model_name)
    /\ Cardinality(OutputFiles) = 2
    /\ \A f \in OutputFiles : HasSegment(files[f].name, "_debiased")

\* C7: the eraser path list handed to the models is the one default path
\* when the parsed value is ['default_path'] and the parsed value itself
\* otherwise (None when the option is absent); every JSON file name written ends
\* with the "_eraser" suffix exactly when the list handed over is not empty.
C7_EraserListAndSuffix ==
    LET expected == IF args.eraser_path_list = Some(Sentinel)
                    THEN Some(<<DefaultEraserPath>>)
                    ELSE args.eraser_path_list
    IN /\ output_dir # None => eraser_path_list = expected
       /\ \A n \in 1 .. Len(models) :
             /\ models[n].erasers = expected
             /\ (entry = "cli" /\ argv[1].eraser_path_list = None) => models[n].erasers = None
       /\ \A f \in OutputFiles :
             LET name == files[f].name
             IN /\ Len(models) > 0
                /\ HasSegment(name, "_eraser") <=>
                      \A n \in 1 .. Len(models) :
                          models[n].erasers # None /\ models[n].erasers[1] # <<>>
                /\ HasSegment(name, "_eraser") =>
                      (name[Len(name)] = ".json" /\ name[Len(name) - 1] = "_eraser")

C7_Witness ==
    /\ dpc = "done"
    /\ args.eraser_path_list = Some(Sentinel)
    /\ Len(models) > 0
    /\ \A n \in 1 .. Len(models) : models[n].erasers = Some(<<DefaultEraserPath>>)
    /\ OutputFiles # {}
    /\ \A f \in OutputFiles : HasSegment(files[f].name, "_eraser")

====
